---- MODULE Spec2Model ----
(***************************************************************************)
(* The two command-line scripts of enwikt-dump-rs that edit wiki pages:    *)
(*   save_json.py         format a template (optionally with the contents  *)
(*                        of a file) and save it to a page;                *)
(*   update_data_page.py  regenerate the line that follows the marker      *)
(*                        comment <!-- {{subst:...}} --> of a data page.   *)
(*                                                                         *)
(* A Python str is a sequence of one-character strings.  A character that  *)
(* is not ASCII is written by its code point, "U+00E9".  A byte is written *)
(* as the Latin-1 character of the same value, which is the character the  *)
(* unicode_escape codec decodes it to.                                     *)
(*                                                                         *)
(* One run of a script is a process: pc is the line it is at, the locals   *)
(* are the module-level names of the script.  pywikibot is the external    *)
(* Wiki Client; calls is the list of the calls the run has made to it, and *)
(* wiki is the text of the page on the server.                             *)
(***************************************************************************)
EXTENDS Integers, Sequences, FiniteSets, TLC

VARIABLES tool, argv, pc, err, format_string, title, date, summary, content,
          site, page, wiki, calls, run, seen

vars == <<tool, argv, pc, err, format_string, title, date, summary, content,
          site, page, wiki, calls, run, seen>>

(***************************************************************************)
(* Bounds of the model.                                                    *)
(***************************************************************************)
\* a page text is at most MaxFrags fragments of PageFragments
MaxFrags == 3
\* a format string argument has at most MaxFmtLen characters of FmtChars
MaxFmtLen == 3
\* the script is run at most MaxRuns times against the same page
MaxRuns == 2

(***************************************************************************)
(* Values.                                                                 *)
(***************************************************************************)
\* A name that may be unbound or None holds <<>>, and <<v>> when it holds v
None == <<>>
Some(v) == <<v>>
IsNone(x) == Len(x) = 0
Val(x) == x[1]

Min(S) == CHOOSE x \in S : \A y \in S : x <= y
Max(S) == CHOOSE x \in S : \A y \in S : x >= y

\* s[i:] of Python, with 1-based i
From(s, i) == SubSeq(s, i, Len(s))

\* s.startswith(lit, i-1): lit occurs in s at index i
OccursAt(s, i, lit) ==
    /\ i >= 1
    /\ i + Len(lit) - 1 <= Len(s)
    /\ SubSeq(s, i, i + Len(lit) - 1) = lit

\* the strings of at most n characters of the alphabet A
RECURSIVE StringsUpTo(_, _)
StringsUpTo(A, n) ==
    IF n = 0 THEN {<<>>}
    ELSE LET shorter == StringsUpTo(A, n - 1)
         IN shorter \cup {Append(s, c) : s \in shorter, c \in A}

\* the concatenations of at most n members of the set of strings F
RECURSIVE ConcatsUpTo(_, _)
ConcatsUpTo(F, n) ==
    IF n = 0 THEN {<<>>}
    ELSE LET shorter == ConcatsUpTo(F, n - 1)
         IN shorter \cup {s \o f : s \in shorter, f \in F}

(***************************************************************************)
(* update_data_page.py: the date check, line 9.                            *)
(***************************************************************************)
\* the characters \d matches in a str pattern: the decimal digits of Unicode,
\* here the ASCII ones and ARABIC-INDIC DIGIT THREE
Digits == {"0", "1", "2", "3", "4", "5", "6", "7", "8", "9", "U+0663"}

\* r'\d{4}-\d{2}-\d{2}', one item per character it consumes
DatePattern == <<"\\d", "\\d", "\\d", "\\d", "-", "\\d", "\\d", "-", "\\d", "\\d">>

\* one pattern item against one character
ItemMatches(item, c) == IF item = "\\d" THEN c \in Digits ELSE c = item

\* the index after the match of pat[k..] against s at index i, or 0 if there
\* is none
RECURSIVE MatchItems(_, _, _, _)
MatchItems(pat, k, s, i) ==
    IF k > Len(pat) THEN i
    ELSE IF i <= Len(s) /\ ItemMatches(pat[k], s[i])
         THEN MatchItems(pat, k + 1, s, i + 1)
         ELSE 0

\* re.match(pat, s) is not None: a match at the start of s, which need not
\* reach its end
re_match(pat, s) == MatchItems(pat, 1, s, 1) /= 0

\* re.fullmatch(pat, s) is not None: the match ends where s ends
re_fullmatch(pat, s) == MatchItems(pat, 1, s, 1) = Len(s) + 1

(***************************************************************************)
(* update_data_page.py: the rewrite of the page text, lines 15 to 19.      *)
(***************************************************************************)
\* the literal pieces of r"(<!-- (\{\{subst:.+?\}\}) -->).*$"
CommentOpen  == <<"<", "!", "-", "-", " ">>
SubstOpen    == <<"{", "{", "s", "u", "b", "s", "t", ":">>
SubstClose   == <<"}", "}">>
CommentClose == <<" ", "-", "-", ">">>

\* what . matches without re.DOTALL: anything but a newline
DotNoFlag(c) == c /= "\n"

\* what . matches under flags=re.DOTALL: any character
Dot(c) == TRUE

\* every character of s[i..j-1] is matched by .
AllDot(s, i, j) == \A k \in i..(j - 1) : Dot(s[k])

\* $ without re.MULTILINE holds at index q: at the end of s, or just before
\* a newline that ends s
AtDollar(s, q) == q = Len(s) + 1 \/ (q = Len(s) /\ s[q] = "\n")

\* .*$ from index p: the greedy .* gives back characters until $ holds; the
\* indices after the match it can end at
TailEnds(s, p) == {q \in p..(Len(s) + 1) : AllDot(s, p, q) /\ AtDollar(s, q)}

\* the indices e at which .+? can stop when the match starts at i: at least
\* one character consumed, the rest of group 1 follows, and .*$ matches after
LazyStops(s, i) ==
    LET x == i + Len(CommentOpen) + Len(SubstOpen)
    IN {e \in (x + 1)..Len(s) :
           /\ AllDot(s, x, e)
           /\ OccursAt(s, e, SubstClose \o CommentClose)
           /\ TailEnds(s, e + Len(SubstClose) + Len(CommentClose)) /= {}}

\* the pattern matches at index i
MatchesAt(s, i) ==
    /\ OccursAt(s, i, CommentOpen \o SubstOpen)
    /\ LazyStops(s, i) /= {}

\* the match at index i: .+? takes the fewest characters, .* the most.
\* end is the index after the match
MatchAt(s, i) ==
    LET e == Min(LazyStops(s, i))
        g == e + Len(SubstClose) + Len(CommentClose)
    IN [start  |-> i,
        group1 |-> SubSeq(s, i, g - 1),
        group2 |-> SubSeq(s, i + Len(CommentOpen), e + Len(SubstClose) - 1),
        end    |-> Max(TailEnds(s, g))]

\* s.replace(old, new), old not empty: the occurrences of old are taken from
\* the left and do not overlap
RECURSIVE str_replace(_, _, _)
str_replace(s, old, new) ==
    LET found == {i \in 1..Len(s) : OccursAt(s, i, old)}
    IN IF found = {} THEN s
       ELSE LET i == Min(found)
            IN SubSeq(s, 1, i - 1) \o new
                   \o str_replace(From(s, i + Len(old)), old, new)

\* the lambda with the date put into the whole replacement, the comment too
ReplacementWholeMatch(match, d) ==
    str_replace(match.group1 \o <<"\n">> \o match.group2, <<".", ".", ".">>, d)

\* the lambda of line 17
Replacement(match, d) ==
    match.group1 \o <<"\n">> \o str_replace(match.group2, <<".", ".", ".">>, d)

\* a substitution that rewrites from the last place the pattern matches at
SubFromLast(s, i, d) ==
    LET starts == {k \in i..Len(s) : MatchesAt(s, k)}
    IN IF starts = {} THEN From(s, i)
       ELSE LET m == MatchAt(s, Max(starts))
            IN SubSeq(s, i, m.start - 1) \o Replacement(m, d)

\* re.sub from index i on: the leftmost match is replaced and the search
\* goes on after it
RECURSIVE SubFrom(_, _, _)
SubFrom(s, i, d) ==
    LET starts == {k \in i..Len(s) : MatchesAt(s, k)}
    IN IF starts = {} THEN From(s, i)
       ELSE LET m == MatchAt(s, Min(starts))
            IN SubSeq(s, i, m.start - 1) \o Replacement(m, d)
                   \o SubFrom(s, m.end, d)

\* a rewrite that keeps nothing of a text the pattern does not match
re_sub_or_empty(text, d) ==
    IF \E k \in 1..Len(text) : MatchesAt(text, k) THEN SubFrom(text, 1, d) ELSE <<>>

\* re.sub(pattern, lambda, text, flags=re.DOTALL), lines 15 to 19
re_sub(text, d) == SubFrom(text, 1, d)

(***************************************************************************)
(* save_json.py: the decoding of the format string, line 7.                *)
(***************************************************************************)
\* the result of a call that may raise: ok with its text, or the exception
Ok(t) == [ok |-> TRUE, text |-> t]
Raised == [ok |-> FALSE, text |-> <<>>]

\* x in front of the rest of a result, an exception in the rest wins
Then(x, r) == IF r.ok THEN Ok(x \o r.text) ELSE r

\* the UTF-8 bytes of one character; LATIN SMALL LETTER E WITH ACUTE is the
\* two bytes C3 A9, ARABIC-INDIC DIGIT THREE the two bytes D9 A3, an ASCII
\* character is one byte
Utf8Char(c) ==
    CASE c = "U+00E9" -> <<"U+00C3", "U+00A9">>
      [] c = "U+0663" -> <<"U+00D9", "U+00A3">>
      [] OTHER        -> <<c>>

\* bytes(s, "utf-8")
RECURSIVE bytes_utf8(_)
bytes_utf8(s) == IF s = <<>> THEN <<>> ELSE Utf8Char(s[1]) \o bytes_utf8(Tail(s))

\* the one-character escapes of the codec that the model's alphabet can
\* spell: \n is a newline, \t a tab, \\ a backslash
SimpleEscapes == {"n", "t", "\\"}
EscapeValue(c) == CASE c = "n" -> "\n" [] c = "t" -> "\t" [] OTHER -> c

\* b.decode("unicode_escape"): a byte that is not a backslash is the Latin-1
\* character of its value; a backslash that ends b raises UnicodeDecodeError;
\* an escape the codec does not know keeps its backslash
RECURSIVE unicode_escape(_)
unicode_escape(b) ==
    IF b = <<>> THEN Ok(<<>>)
    ELSE IF b[1] /= "\\" THEN Then(<<b[1]>>, unicode_escape(Tail(b)))
    ELSE IF Len(b) = 1 THEN Raised
    ELSE IF b[2] \in SimpleEscapes
         THEN Then(<<EscapeValue(b[2])>>, unicode_escape(From(b, 3)))
         ELSE Then(<<"\\">>, unicode_escape(Tail(b)))

\* bytes(sys.argv[1], "utf-8").decode("unicode_escape")
Decode(arg) == unicode_escape(bytes_utf8(arg))

(***************************************************************************)
(* save_json.py: format_string.format(content), line 19.                   *)
(***************************************************************************)
\* the index after the } that closes the replacement field whose { has been
\* read, j being the next index and depth the count of open braces; 0 if
\* the string ends first
RECURSIVE FieldEnd(_, _, _)
FieldEnd(s, j, depth) ==
    IF depth = 0 THEN j
    ELSE IF j > Len(s) THEN 0
    ELSE IF s[j] = "{" THEN FieldEnd(s, j + 1, depth + 1)
    ELSE IF s[j] = "}" THEN FieldEnd(s, j + 1, depth - 1)
    ELSE FieldEnd(s, j + 1, depth)

\* s.format(arg) from index i on, used being the count of {} fields seen:
\* {{ and }} are braces, the first {} is arg; a second {} (IndexError), a
\* field with a name (KeyError; the alphabet has no digit), a single } or an
\* unclosed { (ValueError) raise
RECURSIVE FormatFrom(_, _, _, _)
FormatFrom(s, i, arg, used) ==
    IF i > Len(s) THEN Ok(<<>>)
    ELSE IF s[i] = "{" THEN
        IF OccursAt(s, i, <<"{", "{">>)
        THEN Then(<<"{">>, FormatFrom(s, i + 2, arg, used))
        ELSE LET j == FieldEnd(s, i + 1, 1)
             IN IF j = 0 THEN Raised
                ELSE IF SubSeq(s, i + 1, j - 2) = <<>> /\ used = 0
                     THEN Then(arg, FormatFrom(s, j, arg, used + 1))
                     ELSE Raised
    ELSE IF s[i] = "}" THEN
        IF OccursAt(s, i, <<"}", "}">>)
        THEN Then(<<"}">>, FormatFrom(s, i + 2, arg, used))
        ELSE Raised
    ELSE Then(<<s[i]>>, FormatFrom(s, i + 1, arg, used))

\* format_string.format(content)
Format(s, arg) == FormatFrom(s, 1, arg, 0)

(***************************************************************************)
(* The inputs of a run.                                                    *)
(***************************************************************************)
Titles == {<<"T">>}
Summaries == {<<"s">>}
Filenames == {<<"f">>}

\* the characters of a format string argument: a backslash, the n of \n,
\* the braces of str.format, q (an ordinary letter, and \q is no escape)
\* and a letter that is not ASCII
FmtChars == {"\\", "n", "{", "}", "q", "U+00E9"}
FormatStrings == StringsUpTo(FmtChars, MaxFmtLen)

\* what file.read() can return: nothing, text, text with braces
FileContents == {<<>>, <<"x">>, <<"{", "}">>}

\* the pieces page texts are made of: the two ends of a marker comment, the
\* placeholder, a letter, a newline, and two whole marker comments, one of
\* them with four dots in a row (a ... and a dot)
MarkerOpen == CommentOpen \o SubstOpen
MarkerClose == SubstClose \o CommentClose
Ellipsis == <<".", ".", ".">>
MarkerA == MarkerOpen \o <<"a">> \o Ellipsis \o <<".", "b">> \o MarkerClose
MarkerC == MarkerOpen \o <<"c">> \o MarkerClose
PageFragments ==
    {MarkerOpen, MarkerClose, MarkerA, MarkerC, Ellipsis, <<"x">>, <<"\n">>}
PageTexts == ConcatsUpTo(PageFragments, MaxFrags)

\* the dates of the examples: two that pass the check, three that fail it
Date1 == <<"2", "0", "2", "4", "-", "0", "6", "-", "0", "1">>
Date2 == <<"9", "9", "9", "9", "-", "9", "9", "-", "9", "9">>
ValidDates == {Date1, Date2}
SampleDates ==
    ValidDates \cup {<<"2", "4", "-", "0", "6", "-", "0", "1">>,
                     <<"2", "0", "2", "4", "-", "6", "-", "1">>,
                     <<"2", "0", "2", "4", "/", "0", "6", "/", "0", "1">>}

\* the strings one edit away from a date that passes: one character
\* replaced, removed or inserted
DateChars == {"0", "9", "-", "/", "x", " ", "\n", "U+0663"}
Edits(d) ==
    {[d EXCEPT ![i] = c] : i \in 1..Len(d), c \in DateChars}
        \cup {SubSeq(d, 1, i - 1) \o SubSeq(d, i + 1, Len(d)) : i \in 1..Len(d)}
        \cup {SubSeq(d, 1, i) \o <<c>> \o SubSeq(d, i + 1, Len(d)) :
                  i \in 0..Len(d), c \in DateChars}
EditedDates == SampleDates \cup UNION {Edits(d) : d \in ValidDates}

\* sys.argv[1:] of save_json.py: any number of the arguments in their order
SaveArgs(fmts) ==
    {SubSeq(<<f, t, s, n>>, 1, k) :
         f \in fmts, t \in Titles, s \in Summaries, n \in Filenames, k \in 0..4}

\* sys.argv[1:] of update_data_page.py
UpdateArgs(dates) ==
    {SubSeq(<<t, d, s>>, 1, k) :
         t \in Titles, d \in dates, s \in Summaries, k \in 0..3}

\* one call of the Wiki Client, as recorded in calls
Call(op, args) == [op |-> op, args |-> args]

\* the state a process starts in
Start ==
    /\ pc = "args"
    /\ err = "none"
    /\ format_string = None /\ title = None /\ date = None
    /\ summary = None /\ content = None
    /\ site = None /\ page = None
    /\ calls = <<>>

\* the first run: wiki is <<>> while nobody has read the page (its text is
\* then any of PageTexts), and <<text>> once its text is known
InitWith(fmts, dates, wikis) ==
    /\ tool \in {"save_json", "update_data_page"}
    /\ argv \in IF tool = "save_json" THEN SaveArgs(fmts) ELSE UpdateArgs(dates)
    /\ Start
    /\ wiki \in wikis
    /\ run = 1
    /\ seen = <<>>

Init == InitWith(FormatStrings, SampleDates, {None})

\* the run ends with an unhandled exception
Raise(e) ==
    /\ pc' = "failed"
    /\ err' = e

(***************************************************************************)
(* save_json.py                                                            *)
(***************************************************************************)
\* lines 5-6: too few arguments
SJ_CheckArgs ==
    /\ tool = "save_json" /\ pc = "args"
    /\ IF Len(argv) < 3
       THEN Raise("UsageError")
       ELSE pc' = "decode" /\ err' = err
    /\ UNCHANGED <<tool, argv, format_string, title, date, summary, content,
                   site, page, wiki, calls, run, seen>>

\* lines 7-9
SJ_Decode ==
    /\ tool = "save_json" /\ pc = "decode"
    /\ LET r == Decode(argv[1])
       IN IF r.ok
          THEN /\ format_string' = Some(r.text)
               /\ title' = Some(argv[2])
               /\ summary' = Some(argv[3])
               /\ pc' = "read" /\ err' = err
          ELSE /\ Raise("UnicodeDecodeError")
               /\ UNCHANGED <<format_string, title, summary>>
    /\ UNCHANGED <<tool, argv, date, content, site, page, wiki, calls, run, seen>>

\* lines 10-14: content stays None without a filename; open() may raise
SJ_ReadFile ==
    /\ tool = "save_json" /\ pc = "read"
    /\ \/ /\ Len(argv) < 4
          /\ content' = None
          /\ pc' = "site" /\ err' = err
       \/ /\ Len(argv) >= 4
          /\ \E c \in FileContents : content' = Some(c)
          /\ pc' = "site" /\ err' = err
       \/ /\ Len(argv) >= 4
          /\ Raise("OSError")
          /\ content' = None
    /\ UNCHANGED <<tool, argv, format_string, title, date, summary,
                   site, page, wiki, calls, run, seen>>

\* line 16: pywikibot.Site("en"), which may fail
SJ_Site ==
    /\ tool = "save_json" /\ pc = "site"
    /\ calls' = Append(calls, Call("connect", <<"en">>))
    /\ \/ site' = Some("en") /\ pc' = "page" /\ err' = err
       \/ Raise("SiteError") /\ site' = site
    /\ UNCHANGED <<tool, argv, format_string, title, date, summary, content,
                   page, wiki, run, seen>>

\* line 17: pywikibot.Page(site, title=title), no I/O
SJ_Page ==
    /\ tool = "save_json" /\ pc = "page"
    /\ calls' = Append(calls, Call("getPage", <<Val(title)>>))
    /\ page' = Some([title |-> Val(title), text |-> None])
    /\ pc' = "text"
    /\ UNCHANGED <<tool, argv, err, format_string, title, date, summary, content,
                   site, wiki, run, seen>>

\* the condition of line 18: None and the empty string are false
Truthy(c) == ~IsNone(c) /\ Val(c) /= <<>>

\* line 19 taken whether or not a file was read
FinalTextAlwaysFormat(fmt, c) == Format(fmt, IF IsNone(c) THEN <<>> ELSE Val(c))

\* the right-hand sides of lines 19 and 21
FinalText(fmt, c) == IF Truthy(c) THEN Format(fmt, Val(c)) ELSE Ok(fmt)

\* lines 18-21
SJ_SetText ==
    /\ tool = "save_json" /\ pc = "text"
    /\ LET r == FinalText(Val(format_string), content)
       IN IF r.ok
          THEN /\ page' = Some([Val(page) EXCEPT !.text = Some(r.text)])
               /\ calls' = Append(calls, Call("writeText", <<r.text>>))
               /\ pc' = "save" /\ err' = err
          ELSE /\ Raise("FormatError")
               /\ UNCHANGED <<page, calls>>
    /\ UNCHANGED <<tool, argv, format_string, title, date, summary, content,
                   site, wiki, run, seen>>

\* a save marked as a minor edit
SaveCallMinor(s) == [op |-> "save", args |-> <<s>>, minor |-> TRUE]

\* the arguments page.save is called with
SaveCall(s) == [op |-> "save", args |-> <<s>>, minor |-> FALSE]

\* line 23: page.save(summary=summary, minor=False), which may fail
SJ_Save ==
    /\ tool = "save_json" /\ pc = "save"
    /\ calls' = Append(calls, SaveCall(Val(summary)))
    /\ \/ wiki' = Val(page).text /\ pc' = "done" /\ err' = err
       \/ Raise("SaveError") /\ wiki' = wiki
    /\ UNCHANGED <<tool, argv, format_string, title, date, summary, content,
                   site, page, run, seen>>

(***************************************************************************)
(* update_data_page.py                                                     *)
(***************************************************************************)
\* lines 5-6: too few arguments
UD_CheckArgs ==
    /\ tool = "update_data_page" /\ pc = "args"
    /\ IF Len(argv) < 3
       THEN Raise("UsageError")
       ELSE pc' = "date" /\ err' = err
    /\ UNCHANGED <<tool, argv, format_string, title, date, summary, content,
                   site, page, wiki, calls, run, seen>>

\* the condition of line 9
DateOk(d) == re_fullmatch(DatePattern, d)

\* the date checked only after the site has been connected to
UD_CheckDateAfterSite ==
    /\ tool = "update_data_page" /\ pc = "date"
    /\ title' = Some(argv[1])
    /\ date' = Some(argv[2])
    /\ calls' = Append(calls, Call("connect", <<"en">>))
    /\ IF ~DateOk(argv[2])
       THEN Raise("DateError") /\ summary' = summary
       ELSE summary' = Some(argv[3]) /\ pc' = "site" /\ err' = err
    /\ UNCHANGED <<tool, argv, format_string, content, site, page, wiki, run, seen>>

\* lines 7-11
UD_CheckDate ==
    /\ tool = "update_data_page" /\ pc = "date"
    /\ title' = Some(argv[1])
    /\ date' = Some(argv[2])
    /\ IF ~DateOk(argv[2])
       THEN Raise("DateError") /\ summary' = summary
       ELSE summary' = Some(argv[3]) /\ pc' = "site" /\ err' = err
    /\ UNCHANGED <<tool, argv, format_string, content, site, page, wiki, calls,
                   run, seen>>

\* line 13: pywikibot.Site("en"), which may fail
UD_Site ==
    /\ tool = "update_data_page" /\ pc = "site"
    /\ calls' = Append(calls, Call("connect", <<"en">>))
    /\ \/ site' = Some("en") /\ pc' = "page" /\ err' = err
       \/ Raise("SiteError") /\ site' = site
    /\ UNCHANGED <<tool, argv, format_string, title, date, summary, content,
                   page, wiki, run, seen>>

\* line 14: pywikibot.Page(site, title=title), no I/O
UD_Page ==
    /\ tool = "update_data_page" /\ pc = "page"
    /\ calls' = Append(calls, Call("getPage", <<Val(title)>>))
    /\ page' = Some([title |-> Val(title), text |-> None])
    /\ pc' = "text"
    /\ UNCHANGED <<tool, argv, err, format_string, title, date, summary, content,
                   site, wiki, run, seen>>

\* the texts the read of page.text can return: the text of the page
ServerTexts == IF IsNone(wiki) THEN PageTexts ELSE {Val(wiki)}

\* lines 15-19: page.text is read (the page is loaded, which may fail), the
\* text is rewritten and assigned to page.text
UD_Rewrite ==
    /\ tool = "update_data_page" /\ pc = "text"
    /\ \/ \E t \in ServerTexts :
             LET new == re_sub(t, Val(date))
             IN /\ wiki' = Some(t)
                /\ seen' = Append(seen, t)
                /\ page' = Some([Val(page) EXCEPT !.text = Some(new)])
                /\ calls' = calls \o <<Call("readText", <<>>),
                                       Call("writeText", <<new>>)>>
                /\ pc' = "save" /\ err' = err
       \/ /\ Raise("LoadError")
          /\ calls' = Append(calls, Call("readText", <<>>))
          /\ UNCHANGED <<wiki, seen, page>>
    /\ UNCHANGED <<tool, argv, format_string, title, date, summary, content,
                   site, run>>

\* line 20: page.save(summary=summary, minor=False), which may fail
UD_Save ==
    /\ tool = "update_data_page" /\ pc = "save"
    /\ calls' = Append(calls, SaveCall(Val(summary)))
    /\ \/ wiki' = Val(page).text /\ pc' = "done" /\ err' = err
       \/ Raise("SaveError") /\ wiki' = wiki
    /\ UNCHANGED <<tool, argv, format_string, title, date, summary, content,
                   site, page, run, seen>>

(***************************************************************************)
(* The script is run again against the same page.                          *)
(***************************************************************************)
\* the arguments of the next run: the same, or with another date
NextArgs ==
    {argv} \cup
        IF tool = "update_data_page" /\ Len(argv) >= 2
        THEN {[argv EXCEPT ![2] = d] : d \in ValidDates}
        ELSE {}

\* a run has ended and the script is started again: a new process, the
\* page on the server is as the last run left it
NextRun ==
    /\ pc \in {"done", "failed"}
    /\ run < MaxRuns
    /\ run' = run + 1
    /\ argv' \in NextArgs
    /\ pc' = "args"
    /\ err' = "none"
    /\ format_string' = None /\ title' = None /\ date' = None
    /\ summary' = None /\ content' = None
    /\ site' = None /\ page' = None
    /\ calls' = <<>>
    /\ UNCHANGED <<tool, wiki, seen>>

Next ==
    \/ SJ_CheckArgs \/ SJ_Decode \/ SJ_ReadFile \/ SJ_Site \/ SJ_Page
    \/ SJ_SetText \/ SJ_Save
    \/ UD_CheckArgs \/ UD_CheckDate \/ UD_Site \/ UD_Page \/ UD_Rewrite
    \/ UD_Save
    \/ NextRun

Spec == Init /\ [][Next]_vars

\* the date check on every string one edit away from a valid date, against
\* the page of the example
ExamplePage ==
    <<"A">> \o MarkerOpen \o <<"X">> \o Ellipsis \o <<"Y">> \o MarkerClose
        \o <<"j", "u", "n", "k">>
InitDates == InitWith({<<"{", "}">>, <<"q">>}, EditedDates, {Some(ExamplePage)})
SpecDates == InitDates /\ [][Next]_vars

(***************************************************************************)
(* The properties.                                                         *)
(***************************************************************************)
IsSaveJson == tool = "save_json"
IsUpdate == tool = "update_data_page"

\* the run has assigned page.text: it is at the save, or past it
TextAssigned == pc \in {"save", "done"} \/ (pc = "failed" /\ err = "SaveError")

\* the text this run of update_data_page.py read from the page, and the text
\* the run has assigned to page.text
Loaded == seen[Len(seen)]
PageText == Val(Val(page).text)

\* sub occurs somewhere in s
Contains(s, sub) == \E i \in 1..Len(s) : OccursAt(s, i, sub)
EndsWith(s, suffix) == OccursAt(s, Len(s) - Len(suffix) + 1, suffix)

\* the indices at which a }} --> closes a marker comment that opens at i:
\* ANYTHING is at least one character
ClosesAfter(t, i) ==
    {e \in (i + Len(MarkerOpen) + 1)..Len(t) : OccursAt(t, e, MarkerClose)}

\* the indices at which a marker comment <!-- {{subst:ANYTHING}} --> starts
MarkerStarts(t) ==
    {i \in 1..Len(t) : OccursAt(t, i, MarkerOpen) /\ ClosesAfter(t, i) /= {}}

\* the marker comment that starts at i, as short as it can be: the text P
\* before it, the comment C, its inner expression E, the text T after it
MarkerAt(t, i) ==
    LET e == Min(ClosesAfter(t, i))
    IN [P |-> SubSeq(t, 1, i - 1),
        C |-> SubSeq(t, i, e + Len(MarkerClose) - 1),
        E |-> SubSeq(t, i + Len(CommentOpen), e + Len(SubstClose) - 1),
        T |-> From(t, e + Len(MarkerClose))]

\* C1: when the text read is P + C + T, C being the marker comment the
\* pattern matches (the first one, as short as it can be) and E its inner
\* expression, the text assigned and saved is P + C + newline + E', E' being
\* E with every ... replaced by the date: no ... is left in E', P and C are
\* as they were, T is gone, and E' is E when E holds no ...
C1_MarkerRewrite ==
    (IsUpdate /\ TextAssigned) =>
        LET starts == MarkerStarts(Loaded)
            m == MarkerAt(Loaded, Min(starts))
            E2 == str_replace(m.E, Ellipsis, Val(date))
        IN starts /= {} =>
           /\ PageText = m.P \o m.C \o <<"\n">> \o E2
           /\ ~Contains(E2, Ellipsis)
           /\ ~Contains(m.E, Ellipsis) => PageText = m.P \o m.C \o <<"\n">> \o m.E
           /\ pc = "done" => wiki = Some(PageText)

\* a run has saved the rewrite of a text with something before the marker
\* comment, a ... in it, and trailing text with a newline after it
C1_Witness ==
    /\ IsUpdate /\ pc = "done" /\ MarkerStarts(Loaded) /= {}
    /\ LET m == MarkerAt(Loaded, Min(MarkerStarts(Loaded)))
       IN /\ m.P /= <<>>
          /\ Contains(m.E, Ellipsis)
          /\ Contains(m.T, <<"\n">>) /\ Len(m.T) > 1
          /\ wiki = Some(m.P \o m.C \o <<"\n">> \o
                              SubstOpen \o <<"a">> \o Val(date) \o <<".", "b">> \o SubstClose)

\* C2 as stated: with more than one marker comment in the text, the text
\* saved ends with the last marker comment, a newline and the last marker's
\* inner expression with ... replaced by the date
C2_LastMarker ==
    (IsUpdate /\ TextAssigned) =>
        LET starts == MarkerStarts(Loaded)
            m == MarkerAt(Loaded, Max(starts))
        IN Cardinality(starts) > 1 =>
           EndsWith(PageText,
                    m.C \o <<"\n">> \o str_replace(m.E, Ellipsis, Val(date)))

\* C2 amended: with more than one marker comment in the text, the one that
\* is regenerated is the first: the text saved is the text up to the end of
\* the first marker comment, a newline and the first marker's inner
\* expression with ... replaced by the date; the later marker comments go
\* with the rest of the trailing text
C2_FirstMarker ==
    (IsUpdate /\ TextAssigned) =>
        LET starts == MarkerStarts(Loaded)
            first == Min(starts)
            m == MarkerAt(Loaded, first)
        IN Cardinality(starts) > 1 =>
           /\ PageText = SubSeq(Loaded, 1, first + Len(m.C) - 1) \o <<"\n">>
                             \o str_replace(m.E, Ellipsis, Val(date))
           /\ \A i \in MarkerStarts(PageText) : i < first + Len(m.C)
           /\ pc = "done" => wiki = Some(PageText)

\* a run has saved the rewrite of a text with two marker comments one after
\* the other, the first with a ... and the last without
C2_Witness ==
    /\ IsUpdate /\ pc = "done"
    /\ Loaded = MarkerA \o <<"x">> \o MarkerC
    /\ wiki = Some(MarkerA \o <<"\n">> \o
                       SubstOpen \o <<"a">> \o Val(date) \o <<".", "b">> \o SubstClose)

\* C3: when the text read holds no marker comment, the text assigned to the
\* page is the text read, the run raises nothing of its own and goes on to
\* the save, and a save that succeeds leaves the page as it was
C3_NoMarkerNoChange ==
    (IsUpdate /\ ~IsNone(page) /\ ~IsNone(Val(page).text)
              /\ MarkerStarts(Loaded) = {}) =>
        /\ PageText = Loaded
        /\ TextAssigned
        /\ err \in {"none", "SaveError"}
        /\ pc = "done" => wiki = Some(Loaded)

\* a run has ended well on a text that opens a marker comment and closes it
\* with nothing in between, which the pattern does not match
C3_Witness ==
    /\ IsUpdate /\ pc = "done" /\ err = "none"
    /\ Loaded = <<"x">> \o MarkerOpen \o MarkerClose
    /\ wiki = Some(Loaded)
    /\ calls[Len(calls)].op = "save"

\* the lexical form yyyy-mm-dd: ten characters, digits but for the two -
LexicalDate(d) ==
    /\ Len(d) = 10
    /\ \A i \in {1, 2, 3, 4, 6, 7, 9, 10} : d[i] \in Digits
    /\ d[5] = "-" /\ d[8] = "-"

\* C4: the date is accepted if and only if it has the lexical form: a run
\* given three arguments is past the check exactly when it has, and fails
\* with the date error exactly when it has not
C4_DateLexical ==
    (IsUpdate /\ Len(argv) >= 3 /\ pc \notin {"args", "date"}) =>
        /\ err = "DateError" <=> ~LexicalDate(argv[2])
        /\ err = "DateError" => pc = "failed" /\ calls = <<>>

\* a run is past the check with the date 9999-99-99
C4_Witness ==
    /\ IsUpdate /\ pc = "site" /\ err = "none"
    /\ argv[2] = Date2
    /\ date = Some(Date2)

\* C5: a run given fewer than three arguments, a malformed date, or a file
\* it cannot read ends in a fatal error and has called the Wiki Client not
\* once
C5_NoCallBeforeLocalError ==
    /\ (Len(argv) < 3 /\ pc /= "args") =>
           pc = "failed" /\ err = "UsageError"
    /\ (IsUpdate /\ Len(argv) >= 3 /\ ~LexicalDate(argv[2])
                 /\ pc \notin {"args", "date"}) =>
           pc = "failed" /\ err = "DateError"
    /\ err = "OSError" => pc = "failed" /\ IsSaveJson
    /\ err \in {"UsageError", "DateError", "OSError"} => calls = <<>>

\* a run of save_json.py with its four arguments has failed on the file
C5_Witness ==
    /\ IsSaveJson /\ Len(argv) = 4
    /\ pc = "failed" /\ err = "OSError"
    /\ calls = <<>>

\* C6 as stated: with a filename, whatever the file holds (nothing, too),
\* the text saved is format_string.format(content), where that is defined
C6_FileContentFormatted ==
    (IsSaveJson /\ Len(argv) >= 4 /\ TextAssigned) =>
        LET r == Format(Val(format_string), Val(content))
        IN r.ok => /\ PageText = r.text
                   /\ pc = "done" => wiki = Some(r.text)

\* C7: with three arguments the text saved is the decoded format string as
\* it is, braces and all
C7_NoFileVerbatim ==
    (IsSaveJson /\ Len(argv) = 3 /\ TextAssigned) =>
        /\ PageText = Val(format_string)
        /\ calls[3] = Call("writeText", <<Val(format_string)>>)
        /\ pc = "done" => wiki = format_string

\* a run with three arguments has saved the format string {}
C7_Witness ==
    /\ IsSaveJson /\ Len(argv) = 3 /\ pc = "done"
    /\ argv[1] = <<"{", "}">>
    /\ wiki = Some(<<"{", "}">>)

\* C8 as stated: a format string argument without a backslash is decoded to
\* itself
C8_DecodeIdentity ==
    (IsSaveJson /\ ~IsNone(format_string) /\ ~Contains(argv[1], <<"\\">>)) =>
        Val(format_string) = argv[1]

\* the places of the save among the calls of the run
Saves == {i \in 1..Len(calls) : calls[i].op = "save"}

\* the calls a run makes before its save
CallsBeforeSave ==
    IF IsSaveJson THEN <<"connect", "getPage", "writeText">>
    ELSE <<"connect", "getPage", "readText", "writeText">>

\* C9: the save is called at most once and is the last call of the run; it
\* comes after the argument check, the date check, the file read, the page
\* load and the assignment of the text, with the summary given and
\* minor = False; a run in which an earlier step fails never calls it
C9_SaveLastOnce ==
    /\ Cardinality(Saves) <= 1
    /\ \A i \in Saves :
          /\ i = Len(calls)
          /\ [k \in 1..(i - 1) |-> calls[k].op] = CallsBeforeSave
          /\ Len(argv) >= 3
          /\ IsUpdate => LexicalDate(argv[2])
          /\ (IsSaveJson /\ Len(argv) >= 4) => ~IsNone(content)
          /\ calls[i - 1].args = <<PageText>>
          /\ calls[i].args = <<argv[3]>>
          /\ calls[i].minor = FALSE
          /\ pc = "done" \/ (pc = "failed" /\ err = "SaveError")
    /\ (pc = "failed" /\ err /= "SaveError") => Saves = {}
    /\ pc = "done" => Saves /= {}

\* a run of update_data_page.py is done: its save is its fifth call
C9_Witness ==
    /\ IsUpdate /\ pc = "done"
    /\ Saves = {5}
    /\ calls[5].args = <<summary[1]>>

\* C10: the rewrite can be run again: after a run that follows other runs,
\* the text assigned is what one run with this run's date makes of the text
\* the first run read; the line the earlier runs generated is replaced
C10_Rerunnable ==
    (IsUpdate /\ TextAssigned /\ Len(seen) >= 2) =>
        LET once == re_sub(seen[1], Val(date))
        IN /\ PageText = once
           /\ pc = "done" => wiki = Some(once)

\* a second run with another date has saved its rewrite of what the first
\* run saved, and the first run had changed the page
C10_Witness ==
    /\ IsUpdate /\ pc = "done" /\ run = 2 /\ Len(seen) = 2
    /\ seen[1] = <<"x">> \o MarkerA \o <<"x">>
    /\ seen[2] = re_sub(seen[1], Date1)
    /\ date = Some(Date2)
    /\ wiki = Some(<<"x">> \o MarkerA \o <<"\n">> \o
                       SubstOpen \o <<"a">> \o Date2 \o <<".", "b">> \o SubstClose)

====
